---- MODULE Spec2Model ----
(***************************************************************************)
(* Karma ledger backend: the weekly suggestion pipeline, the event intake  *)
(* and feedback pipeline, the badge engine and the weekly leaderboard.     *)
(*                                                                         *)
(* Time is counted in ticks, Day ticks to a day (the source counts        *)
(* milliseconds, 86400000 to a day).  Tick 0 is midnight at the start of   *)
(* a Thursday, as the JavaScript epoch is.  A nullable column is a         *)
(* sequence of length at most one: <<>> is NULL, <<v>> is the value v.     *)
(***************************************************************************)
EXTENDS Integers, Sequences, FiniteSets, Bags, TLC

\* ---------------------------------------------------------------- bounds
Day == 2
MaxWeeks == 1
MaxSJobs == 1
MaxRacing == 2
MaxBatch == 1
NumUsers == 2
MaxEvents == 2
MaxRedeliveries == 1
MaxLBCalls == 2
LBUsers == 11
MaxAway == 1
MaxHigh == 2
MaxHist == 2
MaxChecks == 2
MaxLogins == 3

\* -------------------------------------------------------------- constants
FallbackDays == 21
FallbackLimit == 20
DaysPerWeek == 7
EpochWeekday == 4

UserIds == 1..NumUsers
SignalTypes == {"FIRST_EVENT", "MILESTONE_10", "MILESTONE_50", "MILESTONE_100",
                "FIRST_SUGGESTION", "TOP10_RANKED"}
Texts == {"walk", "call"}
NULL == <<>>
\* what the reply variables hold before the first call
NoScores == [userId |-> 0, scores |-> <<>>]
NoDateReply == [fn |-> "none", date |-> 0, value |-> 0]
NoFetch == [userId |-> 0, rows |-> <<>>]
\* a status check whose getMyKarmaEvents request is out
AwaitingCheck == [pc |-> "awaiting", ready |-> {}]
\* the feedback-notification hook as the events page mounts it
NoHook == [processing |-> {}, polling |-> FALSE, notified |-> {},
           checks |-> EmptyBag,
           toasts |-> [e \in 1..MaxEvents |-> 0]]
\* the auth context, the api client and localStorage with nobody signed in
NoAuth == [pc |-> "idle", email |-> 0, attempt |-> 0, outcome |-> "none",
           token |-> NULL, apiToken |-> NULL, stored |-> NULL,
           user |-> NULL, isLoading |-> FALSE, error |-> NULL]

VARIABLES
  now,          \* the wall clock, in ticks
  users,        \* users table: user_id -> [username, createdAt]
  events,       \* karma_events table: a set of rows
  suggestions,  \* suggestions table: a set of rows
  nextId,       \* next primary key the suggestions table hands out
  sjobs,        \* karma_suggestion queue: job id -> job record
  workers,      \* how many suggestion jobs the worker pool runs at once
  signals,      \* milestone signals emitted and not yet handled: <<type, userId>> -> count
  emitted,      \* milestone signals emitted so far: <<type, userId>> -> count
  fjobs,        \* karma_feedback queue: event_id -> job record
  userBadges,   \* user_badges table: a set of rows
  leaderboard,  \* the list the last getWeeklyLeaderboard call returned
  lbCalls,      \* how many getWeeklyLeaderboard calls have been served
  weeklyScores, \* the last reply of getWeeklyKarmaScores: [userId, scores]
  dateReply,    \* the last reply of a date.util function: [fn, date, value]
  fetched,      \* the last reply of getSuggestions: [userId, rows]
  hook,         \* the client's useAIFeedbackNotifications hook
  auth          \* the client's auth context, api client token and localStorage

vars == <<now, users, events, suggestions, nextId, sjobs, workers, signals, emitted,
          fjobs, userBadges, leaderboard, lbCalls, weeklyScores, dateReply, fetched,
          hook, auth>>

\* what only the read-only calls write
\* and what only the client writes
clientVars == <<hook, auth>>
readVars == <<weeklyScores, dateReply, fetched, clientVars>>

\* what the suggestion pipeline never touches
otherVars == <<fjobs, userBadges, leaderboard, lbCalls>>
\* what the feedback pipeline, the badge engine and the leaderboard never touch
suggVars == <<suggestions, nextId, sjobs, workers>>

\* ------------------------------------------------------------ date.util.ts
Max(a, b) == IF a >= b THEN a ELSE b

\* Math.ceil(n / d) for an integer n and d > 0
CeilDiv(n, d) == -((-n) \div d)

\* Date.getDay(): Sunday = 0, Monday = 1, ..., Saturday = 6
getDay(t) == (EpochWeekday + (t \div Day)) % DaysPerWeek

\* const daysSinceMonday = dayOfWeek === 0 ? 6 : dayOfWeek - 1
DaysSinceMondaySundayFirst(dayOfWeek) == dayOfWeek - 1
DaysSinceMonday(dayOfWeek) == IF dayOfWeek = 0 THEN 6 ELSE dayOfWeek - 1

getCalendarWeekForDate(t) ==
  LET dayOfWeek == getDay(t)
      daysSinceMonday == DaysSinceMonday(dayOfWeek)
      weekStart == ((t \div Day) - daysSinceMonday) * Day
      weekEnd == weekStart + 6 * Day + (Day - 1)
  IN [start |-> weekStart, end |-> weekEnd]

getCurrentCalendarWeek ==
  LET dayOfWeek == getDay(now)
      daysSinceMonday == IF dayOfWeek = 0 THEN 6 ELSE dayOfWeek - 1
      weekStart == ((now \div Day) - daysSinceMonday) * Day
      weekEnd == weekStart + 6 * Day + (Day - 1)
  IN [start |-> weekStart, end |-> weekEnd]

\* DashboardService.getWeekSinceJoin
getWeekSinceJoin(joinedAt) ==
  LET diffDays == (now - joinedAt) \div Day
  IN Max(1, CeilDiv(diffDays, DaysPerWeek))

\* date.util.ts getWeeksSinceJoin
getWeeksSinceJoinNoMax(joinedAt) ==
  LET diffDays == (now - joinedAt) \div Day
  IN CeilDiv(diffDays, DaysPerWeek)
getWeeksSinceJoin(joinedAt) ==
  LET diffDays == (now - joinedAt) \div Day
  IN Max(1, CeilDiv(diffDays, DaysPerWeek))

\* the date.util functions as calls that reply
GetCurrentCalendarWeek ==
  /\ dateReply' = [fn |-> "getCurrentCalendarWeek", date |-> now,
                   value |-> getCurrentCalendarWeek]
  /\ UNCHANGED <<now, users, events, suggestions, nextId, sjobs, workers, signals,
                 emitted, fjobs, userBadges, leaderboard, lbCalls, weeklyScores, fetched,
                 clientVars>>

GetCalendarWeekForDate(date) ==
  /\ dateReply' = [fn |-> "getCalendarWeekForDate", date |-> date,
                   value |-> getCalendarWeekForDate(date)]
  /\ UNCHANGED <<now, users, events, suggestions, nextId, sjobs, workers, signals,
                 emitted, fjobs, userBadges, leaderboard, lbCalls, weeklyScores, fetched,
                 clientVars>>

GetWeeksSinceJoin(joinedAt) ==
  /\ dateReply' = [fn |-> "getWeeksSinceJoin", date |-> joinedAt,
                   value |-> getWeeksSinceJoin(joinedAt)]
  /\ UNCHANGED <<now, users, events, suggestions, nextId, sjobs, workers, signals,
                 emitted, fjobs, userBadges, leaderboard, lbCalls, weeklyScores, fetched,
                 clientVars>>

\* ------------------------------------------------------------ sequences
RECURSIVE SeqsUpTo(_, _)
SeqsUpTo(S, n) ==
  IF n = 0 THEN {<<>>}
  ELSE LET shorter == SeqsUpTo(S, n - 1)
       IN shorter \cup {Append(s, x) : s \in {q \in shorter : Len(q) = n - 1}, x \in S}

\* The rows of a set as a list ordered by occurred_at DESC (ties by event_id).
RECURSIVE OrderDesc(_)
OrderDesc(rows) ==
  IF rows = {} THEN <<>>
  ELSE LET top == CHOOSE r \in rows : \A q \in rows :
                    \/ r.occurred_at > q.occurred_at
                    \/ (r.occurred_at = q.occurred_at /\ r.event_id <= q.event_id)
       IN <<top>> \o OrderDesc(rows \ {top})

Take(s, n) == IF Len(s) <= n THEN s ELSE SubSeq(s, 1, n)

\* ------------------------------------------- suggestions.processor.ts
Batches == SeqsUpTo(Texts, MaxBatch)

JobIds == DOMAIN sjobs

IdleJob == [pc |-> "none", userId |-> 0, week |-> 0, events |-> <<>>,
            batch |-> <<>>, existingCount |-> 0, created |-> {}, prior |-> {}]

SuggestionsOf(userId) == {r \in suggestions : r.user_id = userId}

InFlight(j) == sjobs[j].pc \in {"findByPk", "findWeek", "findFallback", "oracle",
                                "count", "destroy", "bulkCreate"}

\* karmaEventRepo.findAll over the current calendar week, newest first
CurrentWeekEvents(userId) ==
  LET w == getCurrentCalendarWeek
  IN OrderDesc({e \in events : /\ e.user_id = userId
                               /\ e.occurred_at >= w.start
                               /\ e.occurred_at <= w.end})

\* karmaEventRepo.findAll over the last three weeks, newest first, limit 20
FallbackEventsOfAll(userId) ==
  LET threeWeeksAgo == now - FallbackDays * Day
  IN Take(OrderDesc({e \in events : e.occurred_at >= threeWeeksAgo}),
          FallbackLimit)
FallbackEvents(userId) ==
  LET threeWeeksAgo == now - FallbackDays * Day
  IN Take(OrderDesc({e \in events : /\ e.user_id = userId
                                    /\ e.occurred_at >= threeWeeksAgo}),
          FallbackLimit)

\* suggestionRepo.destroy({ where: { user_id } }): the rows left in the table
DestroyAllNone(userId) == suggestions
DestroyAll(userId) == {r \in suggestions : r.user_id # userId}

\* the rows suggestionRepo.bulkCreate inserts for a batch
NewRowsUsed(userId, week, batch) ==
  {[id |-> nextId + i - 1, user_id |-> userId, suggestion_text |-> batch[i],
    week |-> <<week>>, used |-> TRUE, created_at |-> now] : i \in 1..Len(batch)}
NewRows(userId, week, batch) ==
  {[id |-> nextId + i - 1, user_id |-> userId, suggestion_text |-> batch[i],
    week |-> <<week>>, used |-> FALSE, created_at |-> now] : i \in 1..Len(batch)}

\* eventEmitter.emit(type, { userId }): the signal is handed to its listener
Emit(type, userId) ==
  /\ signals' = [signals EXCEPT ![<<type, userId>>] = @ + 1]
  /\ emitted' = [emitted EXCEPT ![<<type, userId>>] = @ + 1]

\* DashboardService.triggerSuggestionProcessing
TriggerSuggestionProcessing(userId) ==
  /\ userId \in DOMAIN users
  /\ \E j \in JobIds :
       /\ sjobs[j].pc = "none"
       /\ \A k \in 1..(j - 1) : sjobs[k].pc # "none"
       /\ sjobs' = [sjobs EXCEPT ![j] =
            [IdleJob EXCEPT !.pc = "queued", !.userId = userId,
                            !.week = getWeekSinceJoin(users[userId].createdAt)]]
  /\ UNCHANGED <<now, users, events, suggestions, nextId, workers, signals, emitted, otherVars, readVars>>

\* the worker takes a job off the queue and calls process(job)
StartJob(j) ==
  /\ sjobs[j].pc = "queued"
  /\ Cardinality({k \in JobIds : InFlight(k)}) < workers
  /\ sjobs' = [sjobs EXCEPT ![j].pc = "findByPk",
                            ![j].prior = {r.id : r \in SuggestionsOf(sjobs[j].userId)}]
  /\ UNCHANGED <<now, users, events, suggestions, nextId, workers, signals, emitted, otherVars, readVars>>

\* userRepo.findByPk, then the query over the current calendar week
FindUserUnchecked(j) ==
  /\ sjobs[j].pc = "findByPk"
  /\ sjobs' = [sjobs EXCEPT ![j].pc = "findWeek"]
  /\ UNCHANGED <<now, users, events, suggestions, nextId, workers, signals, emitted, otherVars, readVars>>
FindUser(j) ==
  /\ sjobs[j].pc = "findByPk"
  /\ sjobs' = [sjobs EXCEPT ![j].pc =
                 IF sjobs[j].userId \in DOMAIN users THEN "findWeek" ELSE "failed"]
  /\ UNCHANGED <<now, users, events, suggestions, nextId, workers, signals, emitted, otherVars, readVars>>

FindWeekEvents(j) ==
  /\ sjobs[j].pc = "findWeek"
  /\ LET currentWeekEvents == CurrentWeekEvents(sjobs[j].userId)
     IN sjobs' = [sjobs EXCEPT ![j].events = currentWeekEvents,
                               ![j].pc = IF Len(currentWeekEvents) = 0
                                         THEN "findFallback" ELSE "oracle"]
  /\ UNCHANGED <<now, users, events, suggestions, nextId, workers, signals, emitted, otherVars, readVars>>

FindFallbackEvents(j) ==
  /\ sjobs[j].pc = "findFallback"
  /\ sjobs' = [sjobs EXCEPT ![j].events = FallbackEvents(sjobs[j].userId),
                            ![j].pc = "oracle"]
  /\ UNCHANGED <<now, users, events, suggestions, nextId, workers, signals, emitted, otherVars, readVars>>

\* aiService.generateWeeklySuggestions: any list of strings, or a failure
GenerateSuggestionsAfterDelete(j) ==
  /\ sjobs[j].pc = "oracle"
  /\ \/ /\ \E batch \in Batches :
             sjobs' = [sjobs EXCEPT ![j].batch = batch, ![j].pc = "count"]
        /\ UNCHANGED suggestions
     \/ /\ sjobs' = [sjobs EXCEPT ![j].pc = "failed"]
        /\ suggestions' = DestroyAll(sjobs[j].userId)
  /\ UNCHANGED <<now, users, events, nextId, workers, signals, emitted, otherVars, readVars>>
GenerateSuggestions(j) ==
  /\ sjobs[j].pc = "oracle"
  /\ \/ \E batch \in Batches :
          sjobs' = [sjobs EXCEPT ![j].batch = batch, ![j].pc = "count"]
     \/ sjobs' = [sjobs EXCEPT ![j].pc = "failed"]
  /\ UNCHANGED <<now, users, events, suggestions, nextId, workers, signals, emitted, otherVars, readVars>>

CountExisting(j) ==
  /\ sjobs[j].pc = "count"
  /\ sjobs' = [sjobs EXCEPT
                 ![j].existingCount = Cardinality(SuggestionsOf(sjobs[j].userId)),
                 ![j].pc = "destroy"]
  /\ UNCHANGED <<now, users, events, suggestions, nextId, workers, signals, emitted, otherVars, readVars>>

DestroyExisting(j) ==
  /\ sjobs[j].pc = "destroy"
  /\ suggestions' = DestroyAll(sjobs[j].userId)
  /\ sjobs' = [sjobs EXCEPT ![j].pc = "bulkCreate"]
  /\ UNCHANGED <<now, users, events, nextId, workers, signals, emitted, otherVars, readVars>>

\* suggestionRepo.count or suggestionRepo.destroy throws: the catch logs it
CountExistingFails(j) ==
  /\ sjobs[j].pc = "count"
  /\ sjobs' = [sjobs EXCEPT ![j].pc = "failed"]
  /\ UNCHANGED <<now, users, events, suggestions, nextId, workers, signals, emitted, otherVars, readVars>>

DestroyExistingFails(j) ==
  /\ sjobs[j].pc = "destroy"
  /\ sjobs' = [sjobs EXCEPT ![j].pc = "failed"]
  /\ UNCHANGED <<now, users, events, suggestions, nextId, workers, signals, emitted, otherVars, readVars>>

\* bulkCreate, then the FIRST_SUGGESTION emit of the same synchronous stretch
BulkCreateEmitsOnEmpty(j) ==
  /\ sjobs[j].pc = "bulkCreate"
  /\ LET job == sjobs[j]
         rows == NewRows(job.userId, job.week, job.batch)
     IN /\ suggestions' = suggestions \cup rows
        /\ nextId' = nextId + Len(job.batch)
        /\ sjobs' = [sjobs EXCEPT ![j].created = {r.id : r \in rows}, ![j].pc = "done"]
        /\ IF job.existingCount = 0
           THEN Emit("FIRST_SUGGESTION", job.userId)
           ELSE UNCHANGED <<signals, emitted>>
  /\ UNCHANGED <<now, users, events, workers, otherVars, readVars>>
BulkCreate(j) ==
  /\ sjobs[j].pc = "bulkCreate"
  /\ LET job == sjobs[j]
         rows == NewRows(job.userId, job.week, job.batch)
     IN /\ suggestions' = suggestions \cup rows
        /\ nextId' = nextId + Len(job.batch)
        /\ sjobs' = [sjobs EXCEPT ![j].created = {r.id : r \in rows}, ![j].pc = "done"]
        /\ IF job.existingCount = 0 /\ Cardinality(rows) > 0
           THEN Emit("FIRST_SUGGESTION", job.userId)
           ELSE UNCHANGED <<signals, emitted>>
  /\ UNCHANGED <<now, users, events, workers, otherVars, readVars>>

\* the bulk insert throws (or the worker dies) after the delete went through
BulkCreateFailsRetried(j) ==
  /\ sjobs[j].pc = "bulkCreate"
  /\ sjobs' = [sjobs EXCEPT ![j].pc = "queued"]
  /\ UNCHANGED <<now, users, events, suggestions, nextId, workers, signals, emitted, otherVars, readVars>>
BulkCreateFails(j) ==
  /\ sjobs[j].pc = "bulkCreate"
  /\ sjobs' = [sjobs EXCEPT ![j].pc = "failedAfterDelete"]
  /\ UNCHANGED <<now, users, events, suggestions, nextId, workers, signals, emitted, otherVars, readVars>>

\* findAll with order created_at DESC: every listing of the rows with
\* created_at not rising; rows of one batch share created_at and come in any
\* order
NewestFirst(rows) ==
  {s \in [1..Cardinality(rows) -> rows] :
     /\ \A i, k \in DOMAIN s : i # k => s[i] # s[k]
     /\ \A i, k \in DOMAIN s : i < k => s[i].created_at >= s[k].created_at}

\* DashboardService.getSuggestions
GetSuggestions(userId) ==
  /\ \E rows \in NewestFirst(SuggestionsOf(userId)) :
       fetched' = [userId |-> userId, rows |-> rows]
  /\ UNCHANGED <<now, users, events, suggestions, nextId, sjobs, workers, signals,
                 emitted, fjobs, userBadges, leaderboard, lbCalls, weeklyScores, dateReply,
                 clientVars>>

\* handleTriggerSuggestions: what one poll makes of the rows it fetched, given
\* the rows the page showed when the trigger was sent
PollFindsNew(current, newSuggestions) ==
  LET currentSuggestionCount == Cardinality(current)
      currentSuggestionTexts == {r.suggestion_text : r \in current}
      newSuggestionTexts == {newSuggestions[i].suggestion_text :
                               i \in 1..Len(newSuggestions)}
      hasNewContent == \E text \in newSuggestionTexts :
                         text \notin currentSuggestionTexts
  IN hasNewContent \/ Len(newSuggestions) # currentSuggestionCount

\* DashboardService.markSuggestionAsUsed: findOne by id and owner, then
\* update({ used: true }), whatever used was
MarkSuggestionAsUsedToggles(suggestionId, userId) ==
  /\ \E r \in suggestions :
       /\ r.id = suggestionId
       /\ r.user_id = userId
       /\ suggestions' = (suggestions \ {r}) \cup {[r EXCEPT !.used = ~r.used]}
  /\ UNCHANGED <<now, users, events, nextId, sjobs, workers, signals, emitted, otherVars, readVars>>
MarkSuggestionAsUsed(suggestionId, userId) ==
  /\ \E r \in suggestions :
       /\ r.id = suggestionId
       /\ r.user_id = userId
       /\ suggestions' = (suggestions \ {r}) \cup {[r EXCEPT !.used = TRUE]}
  /\ UNCHANGED <<now, users, events, nextId, sjobs, workers, signals, emitted, otherVars, readVars>>

\* the clock moves on by a week
Tick ==
  /\ now + DaysPerWeek * Day <= MaxWeeks * DaysPerWeek * Day
  /\ now' = now + DaysPerWeek * Day
  /\ UNCHANGED <<users, events, suggestions, nextId, sjobs, workers, signals, emitted, otherVars, readVars>>

\* ---------------------------------------------------- karma_event.model.ts
\* @Column({ type: DataType.BOOLEAN, defaultValue: false }) feedback_generated
DefaultFeedbackGeneratedSet == TRUE
DefaultFeedbackGenerated == FALSE

\* ------------------------------------ event intake and feedback pipeline
OccurredAtInputs == {NULL}
Actions == {"", "Helped a neighbor"}
OracleIntensities == {-1, 10}
OracleFeedbacks == {"Great job"}
OracleResponses == [intensity : OracleIntensities, feedback : OracleFeedbacks]
NoResponse == [intensity |-> 0, feedback |-> ""]

IdleFeedbackJob == [pc |-> "none", attempts |-> 0, resp |-> NoResponse]


EventsOf(userId) == {e \in events : e.user_id = userId}
EventRow(eventId) == CHOOSE e \in events : e.event_id = eventId
EventExists(eventId) == \E e \in events : e.event_id = eventId

\* list-my-events: the rows of one user
getMyKarmaEvents(userId) == EventsOf(userId)

\* the count milestones and the signal each one raises
CountMilestones == {1, 10, 50, 100}
MilestoneSignal(count) ==
  CASE count = 1 -> "FIRST_EVENT"
    [] count = 10 -> "MILESTONE_10"
    [] count = 50 -> "MILESTONE_50"
    [] count = 100 -> "MILESTONE_100"

\* createEvent, first half: validate the action and persist the row
CreateEvent(userId, action, occurredAt) ==
  /\ userId \in DOMAIN users
  /\ action # ""
  /\ Cardinality(events) < MaxEvents
  /\ LET id == Cardinality(events) + 1
     IN /\ events' = events \cup
             {[event_id |-> id, user_id |-> userId, action |-> action,
               intensity |-> NULL, feedback |-> NULL,
               feedback_generated |-> DefaultFeedbackGenerated,
               occurred_at |-> IF occurredAt = NULL THEN now ELSE occurredAt[1]]}
        /\ fjobs' = [fjobs EXCEPT ![id].pc = "persisted"]
  /\ UNCHANGED <<now, users, signals, emitted, userBadges, leaderboard, lbCalls, suggVars, readVars>>

\* createEvent, second half: enqueue the scoring job and return the row
EnqueueFeedback(eventId) ==
  /\ fjobs[eventId].pc = "persisted"
  /\ fjobs' = [fjobs EXCEPT ![eventId].pc = "queued"]
  /\ UNCHANGED <<now, users, events, signals, emitted, userBadges, leaderboard, lbCalls, suggVars, readVars>>

\* processFeedback: the worker takes the job and loads the event
LoadEvent(eventId) ==
  /\ fjobs[eventId].pc = "queued"
  /\ fjobs' = [fjobs EXCEPT ![eventId].pc =
                 IF EventExists(eventId) THEN "oracle" ELSE "failed",
                            ![eventId].attempts = @ + 1]
  /\ UNCHANGED <<now, users, events, signals, emitted, userBadges, leaderboard, lbCalls, suggVars, readVars>>

\* processFeedback: the oracle's scoreEvent answers, or fails
ScoreEvent(eventId) ==
  /\ fjobs[eventId].pc = "oracle"
  /\ \/ \E resp \in OracleResponses :
          fjobs' = [fjobs EXCEPT ![eventId].resp = resp, ![eventId].pc = "update"]
     \/ fjobs' = [fjobs EXCEPT ![eventId].pc = "failed"]
  /\ UNCHANGED <<now, users, events, signals, emitted, userBadges, leaderboard, lbCalls, suggVars, readVars>>

\* the row processFeedback writes back on success
ScoredRowKeepsFlag(row, resp) ==
  [row EXCEPT !.intensity = <<resp.intensity>>, !.feedback = <<resp.feedback>>]
ScoredRow(row, resp) ==
  [row EXCEPT !.intensity = <<resp.intensity>>, !.feedback = <<resp.feedback>>,
              !.feedback_generated = TRUE]

UpdateEvent(eventId) ==
  /\ fjobs[eventId].pc = "update"
  /\ LET row == EventRow(eventId)
     IN events' = (events \ {row}) \cup {ScoredRow(row, fjobs[eventId].resp)}
  /\ fjobs' = [fjobs EXCEPT ![eventId].pc = "count"]
  /\ UNCHANGED <<now, users, signals, emitted, userBadges, leaderboard, lbCalls, suggVars, readVars>>

\* processFeedback: count the user's events and emit the milestone, if any
CountAndEmit(eventId) ==
  /\ fjobs[eventId].pc = "count"
  /\ LET userId == EventRow(eventId).user_id
         count == Cardinality(EventsOf(userId))
     IN IF count \in CountMilestones
        THEN Emit(MilestoneSignal(count), userId)
        ELSE UNCHANGED <<signals, emitted>>
  /\ fjobs' = [fjobs EXCEPT ![eventId].pc = "done"]
  /\ UNCHANGED <<now, users, events, userBadges, leaderboard, lbCalls, suggVars, readVars>>

\* deliveries after a job's first one, started or waiting in the queue
Redeliveries ==
  Cardinality({p \in (1..MaxEvents) \X (1..MaxRedeliveries) :
                 fjobs[p[1]].attempts + (IF fjobs[p[1]].pc = "queued" THEN 1 ELSE 0) > p[2]})

\* the queue hands a finished or failed job to a worker once more; the new
\* invocation starts without the previous one's oracle response
Redeliver(eventId) ==
  /\ fjobs[eventId].pc \in {"done", "failed"}
  /\ Redeliveries < MaxRedeliveries
  /\ fjobs' = [fjobs EXCEPT ![eventId].pc = "queued", ![eventId].resp = NoResponse]
  /\ UNCHANGED <<now, users, events, signals, emitted, userBadges, leaderboard, lbCalls, suggVars, readVars>>

\* ----------------------------------------------------------- badge engine
BadgeCode(type) == type

\* find-or-create of the UserBadge row for (userId, code)
AwardBadgeAlways(userId, code) ==
  userBadges \cup {[user_badge_id |-> Cardinality(userBadges) + 1,
                    user_id |-> userId, badge |-> code, awarded_at |-> now]}
AwardBadge(userId, code) ==
  IF \E b \in userBadges : b.user_id = userId /\ b.badge = code
  THEN userBadges
  ELSE userBadges \cup {[user_badge_id |-> Cardinality(userBadges) + 1,
                         user_id |-> userId, badge |-> code, awarded_at |-> now]}

\* the listener receives one milestone signal
HandleSignal(type, userId) ==
  /\ signals[<<type, userId>>] > 0
  /\ signals' = [signals EXCEPT ![<<type, userId>>] = @ - 1]
  /\ userBadges' = AwardBadge(userId, BadgeCode(type))
  /\ UNCHANGED <<now, users, events, emitted, fjobs, leaderboard, lbCalls, suggVars, readVars>>

\* ------------------------------------- dashboard.service.ts: leaderboard
TopN == 10
UnknownUsername == 0
IntensitySpan == 11

\* Math.round(((avg - -1) / 11) * 100) for avg = sum / n, in exact arithmetic;
\* Math.round rounds halves up
NormalizedScoreTrunc(sum, n) == (100 * (sum + n)) \div (IntensitySpan * n)
NormalizedScore(sum, n) ==
  (200 * (sum + n) + IntensitySpan * n) \div (2 * IntensitySpan * n)

RECURSIVE SumIntensity(_)
SumIntensity(rows) ==
  IF rows = {} THEN 0
  ELSE LET r == CHOOSE x \in rows : TRUE
       IN r.intensity[1] + SumIntensity(rows \ {r})

\* where: occurred_at BETWEEN weekStart AND weekEnd
InWeekWide(e, w) == e.occurred_at >= w.start - 1 /\ e.occurred_at <= w.end + 1
InWeek(e, w) == e.occurred_at >= w.start /\ e.occurred_at <= w.end

\* one row of the aggregate query: AVG(intensity) skips NULLs and is NULL when
\* every intensity of the group is NULL
UserScoreRowSummed(userId, w) ==
  LET rows == {e \in events : e.user_id = userId /\ InWeek(e, w)}
      scored == {e \in rows : e.intensity # NULL}
  IN [user_id |-> userId,
      avg_intensity |-> IF scored = {} THEN NULL
                        ELSE <<[sum |-> SumIntensity(scored), n |-> 1]>>,
      event_count |-> Cardinality(rows)]
UserScoreRow(userId, w) ==
  LET rows == {e \in events : e.user_id = userId /\ InWeek(e, w)}
      scored == {e \in rows : e.intensity # NULL}
  IN [user_id |-> userId,
      avg_intensity |-> IF scored = {} THEN NULL
                        ELSE <<[sum |-> SumIntensity(scored), n |-> Cardinality(scored)]>>,
      event_count |-> Cardinality(rows)]

\* the leaderboard entry mapped from one aggregate row
LeaderboardEntry(score) ==
  LET avg == IF score.avg_intensity = NULL THEN [sum |-> 0, n |-> 1]
             ELSE score.avg_intensity[1]
  IN [userId |-> score.user_id,
      username |-> IF score.user_id \in DOMAIN users
                   THEN users[score.user_id].username ELSE UnknownUsername,
      score |-> NormalizedScore(avg.sum, avg.n)]

\* GROUP BY user_id has no ORDER BY: the store may return the groups in
\* ascending or in descending key order
GroupOrders == {"asc", "desc"}

GroupList(ids, order) ==
  [i \in 1..Cardinality(ids) |->
     CHOOSE u \in ids :
       Cardinality({v \in ids : IF order = "asc" THEN v < u ELSE v > u}) = i - 1]

\* Array.prototype.sort((a, b) => b.score - a.score): stable and descending,
\* so an entry comes after every entry of higher score and after the entries
\* of equal score that preceded it in the input
SortPosition(list, i) ==
  Cardinality({j \in 1..Len(list) : list[j].score > list[i].score})
    + Cardinality({j \in 1..i : list[j].score = list[i].score})

SortPositionAsc(list, i) ==
  Cardinality({j \in 1..Len(list) : list[j].score < list[i].score})
    + Cardinality({j \in 1..i : list[j].score = list[i].score})

\* the list rearranged so that entry i lands at position pos[i]
Rearranged(list, pos) ==
  [k \in 1..Len(list) |-> list[CHOOSE i \in 1..Len(list) : pos[i] = k]]

SortByScoreAsc(list) ==
  Rearranged(list, [i \in 1..Len(list) |-> SortPositionAsc(list, i)])

SortByScoreDesc(list) ==
  Rearranged(list, [i \in 1..Len(list) |-> SortPosition(list, i)])

\* the rows of the aggregate query mapped to leaderboard entries
Board(groups, w) ==
  [i \in 1..Len(groups) |-> LeaderboardEntry(UserScoreRow(groups[i], w))]

\* the list getWeeklyLeaderboard returns when the groups arrive in this order
WeeklyLeaderboard(order) ==
  IF DOMAIN users = {} THEN <<>>
  ELSE Take(SortByScoreDesc(Board(GroupList(
              {e.user_id : e \in {x \in events : InWeek(x, getCurrentCalendarWeek)}},
              order), getCurrentCalendarWeek)), TopN)

\* the TOP10_RANKED signals one call adds to a bag of signals
WithTop10SignalsOnce(bag, top10) ==
  [k \in DOMAIN bag |->
     IF k[1] = "TOP10_RANKED" /\ bag[k] = 0
     THEN bag[k] + Cardinality({i \in 1..Len(top10) : top10[i].userId = k[2]})
     ELSE bag[k]]
WithTop10Signals(bag, top10) ==
  [k \in DOMAIN bag |->
     IF k[1] = "TOP10_RANKED"
     THEN bag[k] + Cardinality({i \in 1..Len(top10) : top10[i].userId = k[2]})
     ELSE bag[k]]

GetWeeklyLeaderboard ==
  /\ lbCalls < MaxLBCalls
  /\ \E order \in GroupOrders :
       \E top10 \in {WeeklyLeaderboard(order)} :
          /\ leaderboard' = top10
          /\ signals' = WithTop10Signals(signals, top10)
          /\ emitted' = WithTop10Signals(emitted, top10)
  /\ lbCalls' = lbCalls + 1
  /\ UNCHANGED <<now, users, events, fjobs, userBadges, suggVars, readVars>>

\* ------------------------------- dashboard.service.ts: weekly karma scores
\* event.intensity || 0
OrZero(intensity) == IF intensity = NULL \/ intensity = <<0>> THEN 0 ELSE intensity[1]

\* Math.max(1, Math.ceil(diffDays / 7)) for an event and the user's join date
BucketOfNoFloor(e, joinDate) ==
  Max(1, CeilDiv(e.occurred_at - joinDate, DaysPerWeek * Day))
BucketOf(e, joinDate) ==
  Max(1, CeilDiv((e.occurred_at - joinDate) \div Day, DaysPerWeek))

RECURSIVE SumOrZero(_)
SumOrZero(rows) ==
  IF rows = {} THEN 0
  ELSE LET r == CHOOSE x \in rows : TRUE
       IN OrZero(r.intensity) + SumOrZero(rows \ {r})

\* Math.round(((avgIntensity - -1) / 11) * 100) for avgIntensity = sum / n
BucketScoreTrunc(sum, n) == (100 * (sum + n)) \div (11 * n)
BucketScore(sum, n) == (200 * (sum + n) + 11 * n) \div (2 * 11 * n)

\* `${score}%`: the digits of the score followed by a percent sign
Percent(score) == <<score, "%">>

\* the keys of weeklyGroups in the order for...in visits them: ascending
WeekKeys(weeks) ==
  [i \in 1..Cardinality(weeks) |->
     CHOOSE w \in weeks : Cardinality({v \in weeks : v < w}) = i - 1]

WeeklyKarmaScores(userId) ==
  LET allEvents == EventsOf(userId)
      joinDate == users[userId].createdAt
      keys == WeekKeys({BucketOf(e, joinDate) : e \in allEvents})
  IN [i \in 1..Len(keys) |->
        LET group == {e \in allEvents : BucketOf(e, joinDate) = keys[i]}
        IN [week |-> keys[i],
            score |-> Percent(BucketScore(SumOrZero(group), Cardinality(group)))]]

GetWeeklyKarmaScores(userId) ==
  /\ userId \in DOMAIN users
  /\ weeklyScores' = [userId |-> userId, scores |-> WeeklyKarmaScores(userId)]
  /\ UNCHANGED <<now, users, events, signals, emitted, fjobs, userBadges, leaderboard,
                 lbCalls, suggVars, dateReply, fetched, clientVars>>

\* ------------------------------------------------------- specifications
InitUsers == [u \in UserIds |-> [username |-> u, createdAt |-> -(u * DaysPerWeek * Day)]]

InitRest ==
  /\ signals = [k \in SignalTypes \X DOMAIN users |-> 0]
  /\ emitted = [k \in SignalTypes \X DOMAIN users |-> 0]
  /\ fjobs = [e \in 1..MaxEvents |-> IdleFeedbackJob]
  /\ userBadges = {}
  /\ leaderboard = <<>>
  /\ lbCalls = 0
  /\ weeklyScores = NoScores
  /\ dateReply = NoDateReply
  /\ fetched = NoFetch
  /\ hook = NoHook
  /\ auth = NoAuth

SuggestionStep ==
  \/ \E u \in UserIds : TriggerSuggestionProcessing(u)
  \/ \E j \in JobIds : StartJob(j)
  \/ \E j \in JobIds : FindUser(j)
  \/ \E j \in JobIds : FindWeekEvents(j)
  \/ \E j \in JobIds : FindFallbackEvents(j)
  \/ \E j \in JobIds : GenerateSuggestions(j)
  \/ \E j \in JobIds : CountExisting(j)
  \/ \E j \in JobIds : DestroyExisting(j)
  \/ \E j \in JobIds : BulkCreate(j)
  \/ \E j \in JobIds : BulkCreateFails(j)
  \/ \E u \in UserIds : \E id \in 1..(nextId - 1) : MarkSuggestionAsUsed(id, u)
  \/ Tick

\* an empty suggestions table and n idle slots in the karma_suggestion queue
InitSuggestions(n) ==
  /\ suggestions = {}
  /\ nextId = 1
  /\ sjobs = [j \in 1..n |-> IdleJob]

InitStore ==
  /\ now = 0
  /\ users = InitUsers
  /\ events = {}
  /\ InitRest

InitCommon == InitStore /\ InitSuggestions(MaxSJobs)

FeedbackStep ==
  \/ \E u \in UserIds : \E a \in Actions : \E at \in OccurredAtInputs :
       CreateEvent(u, a, at)
  \/ \E e \in 1..MaxEvents : EnqueueFeedback(e)
  \/ \E e \in 1..MaxEvents : LoadEvent(e)
  \/ \E e \in 1..MaxEvents : ScoreEvent(e)
  \/ \E e \in 1..MaxEvents : UpdateEvent(e)
  \/ \E e \in 1..MaxEvents : CountAndEmit(e)
  \/ \E e \in 1..MaxEvents : Redeliver(e)

\* event intake and the feedback pipeline
Init == InitCommon /\ workers = 1
Next == FeedbackStep
Spec == Init /\ [][Next]_vars

\* the suggestions table as a run on the day its owner joined left it: one
\* row of week 1; owner 0 stands for an empty table
PriorTable(owner) ==
  IF owner = 0 THEN {}
  ELSE {[id |-> 1, user_id |-> owner, suggestion_text |-> "walk", week |-> <<1>>,
         used |-> FALSE, created_at |-> InitUsers[owner].createdAt]}

\* suggestion jobs run one at a time (a single worker, concurrency 1)
InitSeq ==
  /\ InitStore
  /\ \E owner \in {0} \cup UserIds :
       /\ suggestions = PriorTable(owner)
       /\ nextId = Cardinality(PriorTable(owner)) + 1
  /\ sjobs = [j \in 1..MaxSJobs |-> IdleJob]
  /\ workers = 1
SpecSeq == InitSeq /\ [][SuggestionStep]_vars

\* two suggestion jobs may be in flight at once
InitSugg == InitStore /\ InitSuggestions(MaxRacing) /\ workers = 2
SpecSugg == InitSugg /\ [][SuggestionStep]_vars

\* the leaderboard over a drawn event store: every user has one of three
\* histories around the edges of the week that began on the Monday before
\* tick 0
MondayTick == -3 * Day
NextMondayTick == MondayTick + DaysPerWeek * Day
LBProfiles == {"away", "low", "high"}
LBNows == {MondayTick, NextMondayTick - 1}

ProfileRows(u, p) ==
  LET row(k, at, i) == [event_id |-> 2 * u + k, user_id |-> u,
                        action |-> "Helped a neighbor", intensity |-> <<i>>,
                        feedback |-> <<"Great job">>, feedback_generated |-> TRUE,
                        occurred_at |-> at]
  IN CASE p = "away" -> {row(0, MondayTick - 1, 10)}
       [] p = "low" -> {row(0, MondayTick, -1), row(1, NextMondayTick, 10)}
       [] p = "high" -> {row(0, NextMondayTick - 1, 10)}

\* who may have no event inside the week: any of the first MaxAway users, or
\* everyone; who may have the top score: any MaxHigh users or fewer
AwaySets == SUBSET (1..MaxAway) \cup {1..LBUsers}
HighSets == {s \in SUBSET (1..LBUsers) : Cardinality(s) <= MaxHigh}

LBProfile(u, away, high) ==
  IF u \in away THEN "away" ELSE IF u \in high THEN "high" ELSE "low"

InitLB ==
  /\ now \in LBNows
  /\ users = [u \in 1..LBUsers |-> [username |-> u, createdAt |-> -(u * DaysPerWeek * Day)]]
  /\ \E away \in AwaySets : \E high \in HighSets :
       /\ away \cap high = {}
       /\ events = UNION {ProfileRows(u, LBProfile(u, away, high)) : u \in 1..LBUsers}
  /\ InitRest
  /\ InitSuggestions(MaxSJobs)
  /\ workers = 1

SpecLB == InitLB /\ [][GetWeeklyLeaderboard]_vars

\* the badge engine behind the leaderboard: two users with drawn histories,
\* leaderboard reads and the listener handling their signals in any order
InitBadge ==
  /\ now = 0
  /\ users = InitUsers
  /\ \E prof \in [UserIds -> LBProfiles] :
       events = UNION {ProfileRows(u, prof[u]) : u \in UserIds}
  /\ InitRest
  /\ InitSuggestions(MaxSJobs)
  /\ workers = 1

BadgeStep ==
  \/ GetWeeklyLeaderboard
  \/ \E t \in SignalTypes : \E u \in UserIds : HandleSignal(t, u)
  \/ Tick

SpecBadge == InitBadge /\ [][BadgeStep]_vars

\* ------------------------------------------------------------- claims
RowIds(rows) == {r.id : r \in rows}

\* C1: when suggestion jobs run one at a time, the step that completes a run
\* leaves the user with exactly the new batch: one row per string the oracle
\* returned, each with the job's week and used = false, and none of the rows
\* the user had when the run started.
C1_ReplacedWholesale ==
  [][\A j \in JobIds :
       (sjobs[j].pc = "bulkCreate" /\ sjobs'[j].pc = "done") =>
         LET job == sjobs[j]
             rows == {r \in suggestions' : r.user_id = job.userId}
         IN /\ Cardinality(rows) = Len(job.batch)
            /\ \A t \in Texts :
                 Cardinality({r \in rows : r.suggestion_text = t})
                   = Cardinality({i \in 1..Len(job.batch) : job.batch[i] = t})
            /\ \A r \in rows : r.week = <<job.week>> /\ r.used = FALSE
            /\ RowIds(rows) \cap job.prior = {}]_vars

C1_Witness ==
  \E j \in JobIds :
    /\ workers = 1
    /\ sjobs[j].pc = "done"
    /\ sjobs[j].prior # {}
    /\ Len(sjobs[j].batch) > 0
    /\ sjobs[j].week > 1

\* C3: when two suggestion jobs for one user have both completed, however their
\* steps interleaved, the user's rows are the batch of one of the two.
C3_AsIfSerialized ==
  \A j1, j2 \in JobIds :
    (/\ j1 # j2
     /\ sjobs[j1].userId = sjobs[j2].userId
     /\ sjobs[j1].pc = "done"
     /\ sjobs[j2].pc = "done"
     /\ \A k \in JobIds : sjobs[k].pc \in {"none", "done"})
    => \/ RowIds(SuggestionsOf(sjobs[j1].userId)) = sjobs[j1].created
       \/ RowIds(SuggestionsOf(sjobs[j1].userId)) = sjobs[j2].created

\* C4: a run that fails after its delete and before its insert leaves the
\* rows the user had when the run started in the table.
C4_PriorSetSurvives ==
  [][\A j \in JobIds :
       (sjobs[j].pc = "bulkCreate" /\ sjobs'[j].pc = "failedAfterDelete") =>
         sjobs[j].prior \subseteq RowIds({r \in suggestions' : r.user_id = sjobs[j].userId})]_vars

\* C2: every (user, badge) pair has exactly one UserBadge row once an award
\* attempt for it was handled, however many signals were emitted for it, and
\* none before.
BadgeRows(userId, code) == {b \in userBadges : b.user_id = userId /\ b.badge = code}

C5_FeedbackGeneratedMonotone ==
  [][\A e \in events' :
       IF \E old \in events : old.event_id = e.event_id
       THEN \A old \in events :
              (old.event_id = e.event_id /\ old.feedback_generated) => e.feedback_generated
       ELSE e.feedback_generated = FALSE]_vars

C5_Witness ==
  \E e \in events :
    /\ e.feedback_generated
    /\ fjobs[e.event_id].attempts = 2
    /\ fjobs[e.event_id].pc = "done"

\* C6: from the moment createEvent has persisted an event until its feedback
\* job first writes to it, the row is stored, is returned by list-my-events and
\* is pending: feedback_generated = false, no intensity and no feedback.
FirstJobNotYetWritten(eventId) ==
  \/ fjobs[eventId].attempts = 0 /\ fjobs[eventId].pc \in {"persisted", "queued"}
  \/ fjobs[eventId].attempts = 1 /\ fjobs[eventId].pc \in {"oracle", "update"}

C6_PendingUntilProcessed ==
  \A id \in 1..MaxEvents :
    FirstJobNotYetWritten(id) =>
      \E e \in events :
        /\ e.event_id = id
        /\ e \in getMyKarmaEvents(e.user_id)
        /\ e.feedback_generated = FALSE
        /\ e.intensity = NULL
        /\ e.feedback = NULL

C6_Witness ==
  \E id \in 1..MaxEvents : fjobs[id].pc = "queued" /\ fjobs[id].attempts = 0

\* C7: once a feedback job's oracle call has succeeded and its update is
\* written, list-my-events returns the event with feedback_generated = true
\* and exactly the intensity and feedback the oracle answered.
C7_ScoredAsOracleAnswered ==
  \A id \in 1..MaxEvents :
    fjobs[id].pc \in {"count", "done"} =>
      \E e \in events :
        /\ e.event_id = id
        /\ e \in getMyKarmaEvents(e.user_id)
        /\ e.feedback_generated = TRUE
        /\ e.intensity = <<fjobs[id].resp.intensity>>
        /\ e.feedback = <<fjobs[id].resp.feedback>>

C7_Witness ==
  \E id \in 1..MaxEvents :
    /\ fjobs[id].pc = "done"
    /\ fjobs[id].resp.intensity = 10
    /\ \E other \in 1..MaxEvents : other # id /\ fjobs[other].pc = "failed"

\* C8: once a user has at least t events, for t in {1, 10, 50, 100}, and every
\* feedback job of that user has completed, the milestone of t has been
\* emitted for the user; and a count milestone is only emitted while the
\* user's event count is the count it stands for.
CountSignals == {MilestoneSignal(t) : t \in CountMilestones}

C8_ThresholdsEmitted ==
  \A u \in DOMAIN users : \A t \in CountMilestones :
    (/\ Cardinality(EventsOf(u)) >= t
     /\ \A e \in EventsOf(u) : fjobs[e.event_id].pc = "done")
    => emitted[<<MilestoneSignal(t), u>>] >= 1

C8_OnlyAtMilestoneCounts ==
  \A u \in DOMAIN users : \A type \in CountSignals :
    emitted'[<<type, u>>] > emitted[<<type, u>>] =>
      /\ Cardinality(EventsOf(u)) \in CountMilestones
      /\ type = MilestoneSignal(Cardinality(EventsOf(u)))

MondayOfNow ==
  CHOOSE m \in (now - DaysPerWeek * Day + 1)..now : m % Day = 0 /\ getDay(m) = 1
InWeekFrom(e, monday) ==
  e.occurred_at >= monday /\ e.occurred_at < monday + DaysPerWeek * Day
InThisWeek(e) == InWeekFrom(e, MondayOfNow)
ThisWeekEvents(userId) == {e \in events : e.user_id = userId /\ InThisWeek(e)}
Qualifying == {u \in DOMAIN users : ThisWeekEvents(u) # {}}
Returned == {leaderboard[i].userId : i \in 1..Len(leaderboard)}

\* every user's events of the week that starts at monday
WeekByUser(monday) ==
  [u \in DOMAIN users |-> {e \in events : e.user_id = u /\ InWeekFrom(e, monday)}]

\* C9: the list weeklyLeaderboard returned has at most 10 entries in order of
\* non-increasing score, a user whose events of the week are all 10 stands
\* before a user whose events of the week are all -1, and no qualifying user
\* left out has a higher score than a user in the list.
C9_TopTenDescending ==
  lbCalls > 0 =>
    \A monday \in {MondayOfNow} : \A week \in {WeekByUser(monday)} :
      /\ Len(leaderboard) <= 10
      /\ \A i, j \in 1..Len(leaderboard) :
           i < j =>
             /\ leaderboard[i].score >= leaderboard[j].score
             /\ ~(/\ {e.intensity : e \in week[leaderboard[i].userId]} = {<<-1>>}
                  /\ {e.intensity : e \in week[leaderboard[j].userId]} = {<<10>>})
      /\ \A u \in DOMAIN users :
           (week[u] # {} /\ u \notin Returned) =>
             \A i \in 1..Len(leaderboard) :
               LeaderboardEntry(UserScoreRow(u, getCurrentCalendarWeek)).score
                 <= leaderboard[i].score

C9_Witness ==
  /\ lbCalls > 0
  /\ Len(leaderboard) = 10
  /\ Cardinality(Qualifying) > 10
  /\ leaderboard[1].score = 100
  /\ leaderboard[10].score = 0
  /\ \E u \in Qualifying \ Returned : ThisWeekEvents(u) # {}

\* C10: the entries weeklyLeaderboard returned are distinct users, each with
\* an event inside the current Monday-to-Sunday week and a score that is the
\* rounded rescaling of the average intensity of those events only; a user
\* without an event in the week is not in the list.
C10_CurrentWeekOnly ==
  lbCalls > 0 =>
    \A monday \in {MondayOfNow} : \A week \in {WeekByUser(monday)} :
      /\ \A i, j \in 1..Len(leaderboard) :
           leaderboard[i].userId = leaderboard[j].userId => i = j
      /\ \A i \in 1..Len(leaderboard) :
           \A rows \in {week[leaderboard[i].userId]} : \A sum \in {SumIntensity(rows)} :
             LET n == Cardinality(rows)
                 s == leaderboard[i].score
             IN /\ rows # {}
                /\ 2 * IntensitySpan * n * s <= 200 * (sum + n) + IntensitySpan * n
                /\ 200 * (sum + n) + IntensitySpan * n < 2 * IntensitySpan * n * (s + 1)
      /\ \A u \in DOMAIN users : week[u] = {} => u \notin Returned

C10_Witness ==
  /\ lbCalls > 0
  /\ \E u \in DOMAIN users : EventsOf(u) # {} /\ ThisWeekEvents(u) = {}
  /\ \E i \in 1..Len(leaderboard) :
       /\ leaderboard[i].score = 0
       /\ \E e \in EventsOf(leaderboard[i].userId) : ~InThisWeek(e) /\ e.intensity = <<10>>

\* C11: a getWeeklyLeaderboard call emits exactly one TOP10_RANKED signal for
\* each user in the list it returns, on every call, and no other signal; a
\* call that returns an empty list emits nothing.
C11_OneSignalPerListed ==
  [][lbCalls' = lbCalls + 1 =>
       \A u \in DOMAIN users : \A t \in SignalTypes :
         emitted'[<<t, u>>] - emitted[<<t, u>>]
           = IF t = "TOP10_RANKED"
                /\ \E i \in 1..Len(leaderboard') : leaderboard'[i].userId = u
             THEN 1 ELSE 0]_vars

C11_Witness ==
  /\ lbCalls = 2
  /\ Len(leaderboard) = 10
  /\ \E u \in DOMAIN users : emitted[<<"TOP10_RANKED", u>>] = 2
  /\ \E u \in Qualifying : emitted[<<"TOP10_RANKED", u>>] = 0

\* a call has returned an empty list for a store that holds events
C11_EmptyListReached ==
  /\ lbCalls > 0
  /\ leaderboard = <<>>
  /\ events # {}

\* the scores over a drawn event store: every user has at most MaxHist events
\* at tick 0, each unscored or scored at an end of the intensity range
ScoreIntensities == {NULL, <<-1>>, <<10>>}
Histories ==
  {h \in [ScoreIntensities -> 0..MaxHist] : h[NULL] + h[<<-1>>] + h[<<10>>] <= MaxHist}

HistoryRows(u, h) ==
  {[event_id |-> ((u * 3 + (IF p[1] = NULL THEN 0 ELSE IF p[1] = <<-1>> THEN 1 ELSE 2))
                    * MaxHist) + p[2],
    user_id |-> u, action |-> "Helped a neighbor", intensity |-> p[1],
    feedback |-> IF p[1] = NULL THEN NULL ELSE <<"Great job">>,
    feedback_generated |-> p[1] # NULL, occurred_at |-> 0] :
     p \in {q \in ScoreIntensities \X (1..MaxHist) : q[2] <= h[q[1]]}}

InitScore ==
  /\ now = 0
  /\ users = InitUsers
  /\ \E hist \in [UserIds -> Histories] :
       events = UNION {HistoryRows(u, hist[u]) : u \in UserIds}
  /\ InitRest
  /\ InitSuggestions(MaxSJobs)
  /\ workers = 1

ScoreStep ==
  \/ GetWeeklyLeaderboard
  \/ \E u \in UserIds : GetWeeklyKarmaScores(u)

SpecScore == InitScore /\ [][ScoreStep]_vars

\* s is Math.round of ((sum / n + 1) / 11) * 100
RoundsTo(s, sum, n) ==
  /\ 22 * n * s <= 200 * (sum + n) + 11 * n
  /\ 200 * (sum + n) + 11 * n < 22 * n * (s + 1)

\* the averages the last two calls normalized, each as sum / n, with the score
\* the call reported for it
LeaderboardAverages ==
  {LET scored == {e \in ThisWeekEvents(leaderboard[i].userId) : e.intensity # NULL}
   IN [sum |-> IF scored = {} THEN 0 ELSE SumIntensity(scored),
       n |-> IF scored = {} THEN 1 ELSE Cardinality(scored),
       score |-> <<leaderboard[i].score>>] : i \in 1..Len(leaderboard)}

KarmaScoreAverages ==
  {LET u == weeklyScores.userId
       group == {e \in EventsOf(u) :
                   BucketOf(e, users[u].createdAt) = weeklyScores.scores[k].week}
   IN [sum |-> SumOrZero(group), n |-> Cardinality(group),
       score |-> IF weeklyScores.scores[k].score[2] = "%"
                 THEN <<weeklyScores.scores[k].score[1]>> ELSE <<>>] :
     k \in 1..Len(weeklyScores.scores)}

\* C12: every score weeklyLeaderboard and weeklyKarmaScores report is
\* round(((avg + 1) / 11) * 100) of the average it normalizes: 0 for -1, 100
\* for 10, 50 for 4.5, and a larger average never gets a smaller score,
\* within one call and across the two.
C12_NormalizedScore ==
  \A all \in {LeaderboardAverages \cup KarmaScoreAverages} :
    /\ \A a \in all :
         /\ Len(a.score) = 1
         /\ RoundsTo(a.score[1], a.sum, a.n)
         /\ a.sum = -a.n => a.score[1] = 0
         /\ a.sum = 10 * a.n => a.score[1] = 100
         /\ 2 * a.sum = 9 * a.n => a.score[1] = 50
    /\ \A a, b \in all : a.sum * b.n <= b.sum * a.n => a.score[1] <= b.score[1]

C12_Witness ==
  /\ \E a \in LeaderboardAverages : 2 * a.sum = 9 * a.n
  /\ \E a \in KarmaScoreAverages : 2 * a.sum = 9 * a.n
  /\ \E a \in LeaderboardAverages : a.sum = 10 * a.n

\* the date utilities and the suggestion trigger with the clock and the dates
\* asked for drawn from three weeks of ticks around tick 0
DateRange == (-2 * DaysPerWeek * Day)..(DaysPerWeek * Day)

InitDate ==
  /\ now \in DateRange
  /\ users = InitUsers
  /\ events = {}
  /\ InitRest
  /\ InitSuggestions(1)
  /\ workers = 1

DateStep ==
  \/ GetCurrentCalendarWeek
  \/ \E d \in DateRange : GetCalendarWeekForDate(d)
  \/ \E d \in DateRange : GetWeeksSinceJoin(d)
  \/ \E u \in UserIds : TriggerSuggestionProcessing(u)

SpecDate == InitDate /\ [][DateStep]_vars

\* C13: the window getCurrentCalendarWeek and getCalendarWeekForDate return
\* for a date contains the date, starts at midnight of a Monday and ends at
\* the last tick of the Sunday six days later; for a Sunday date the Monday is
\* the one six days before it, for a Wednesday the one two days before it.
C13_MondayToSunday ==
  dateReply.fn \in {"getCurrentCalendarWeek", "getCalendarWeekForDate"} =>
    LET d == dateReply.date
        w == dateReply.value
        midnight == (d \div Day) * Day
    IN /\ w.start <= d /\ d <= w.end
       /\ w.start % Day = 0
       /\ getDay(w.start) = 1
       /\ w.end = w.start + 6 * Day + (Day - 1)
       /\ getDay(w.end) = 0
       /\ getDay(d) = 0 => w.start = midnight - 6 * Day /\ w.end = midnight + (Day - 1)
       /\ getDay(d) = 3 => w.start = midnight - 2 * Day /\ w.end = midnight + 4 * Day + (Day - 1)
       /\ dateReply.fn = "getCurrentCalendarWeek" => d = now

C13_Witness ==
  /\ dateReply.fn = "getCalendarWeekForDate"
  /\ getDay(dateReply.date) = 0
  /\ dateReply.date % Day = Day - 1
  /\ getDay(now) = 3

\* week is the week number of daysElapsed whole days: 1 up to the seventh
\* day, and after that the w with 7 * (w - 1) < daysElapsed <= 7 * w
IsWeekOf(week, daysElapsed) ==
  /\ week \in Nat \ {0}
  /\ IF daysElapsed <= DaysPerWeek
       THEN week = 1
       ELSE DaysPerWeek * (week - 1) < daysElapsed /\ daysElapsed <= DaysPerWeek * week

\* C14: getWeeksSinceJoin(joinedAt) is an integer of at least 1, also for a
\* join date equal to or later than now, and is max(1, ceil(daysElapsed / 7))
\* over the whole days elapsed since joinedAt; the week in the job payload of
\* triggerSuggestionProcessing is that value for the user's createdAt.
C14_WeeksSinceJoin ==
  /\ dateReply.fn = "getWeeksSinceJoin" =>
        /\ IsWeekOf(dateReply.value, (now - dateReply.date) \div Day)
        /\ dateReply.date >= now => dateReply.value = 1
  /\ \A j \in JobIds : sjobs[j].pc = "queued" =>
        /\ IsWeekOf(sjobs[j].week, (now - users[sjobs[j].userId].createdAt) \div Day)
        /\ sjobs[j].week = getWeeksSinceJoin(users[sjobs[j].userId].createdAt)

C14_Witness ==
  /\ dateReply.fn = "getWeeksSinceJoin"
  /\ dateReply.date > now
  /\ \E j \in JobIds : /\ sjobs[j].pc = "queued"
                       /\ sjobs[j].week = 2
                       /\ (now - users[sjobs[j].userId].createdAt) % Day # 0

C14_FutureJoinQueued ==
  \E j \in JobIds : sjobs[j].pc = "queued" /\ users[sjobs[j].userId].createdAt > now

\* one processSuggestions run over a drawn event store: every user has one
\* of the histories below around the week that began on the Monday before
\* tick 0; the two histories of FallbackLimit + 1 events are drawn for user 1
PickNows == {MondayTick, 0, NextMondayTick - 1}
PickProfiles == {"none", "old", "recent", "week", "ahead", "busy", "busyRecent"}
PickProfilesOf(u) == IF u = 1 THEN PickProfiles ELSE {"none", "recent", "week"}

PickRows(u, p, at) ==
  LET row(k, t) == [event_id |-> (FallbackLimit + 2) * u + k, user_id |-> u,
                    action |-> "Helped a neighbor", intensity |-> <<10>>,
                    feedback |-> <<"Great job">>, feedback_generated |-> TRUE,
                    occurred_at |-> t]
      threeWeeksAgo == at - FallbackDays * Day
  IN CASE p = "none" -> {}
       [] p = "old" -> {row(0, threeWeeksAgo - 1)}
       [] p = "recent" -> {row(0, MondayTick - 1), row(1, at - 10 * Day),
                           row(2, threeWeeksAgo), row(3, threeWeeksAgo - 1)}
       [] p = "week" -> {row(0, MondayTick), row(1, 0), row(2, NextMondayTick - 1),
                         row(3, MondayTick - 1)}
       [] p = "ahead" -> {row(0, NextMondayTick)}
       [] p = "busy" -> {row(k, MondayTick + (k % (DaysPerWeek * Day))) :
                           k \in 0..FallbackLimit}
       [] p = "busyRecent" -> {row(k, MondayTick - 1 - (k % (DaysPerWeek * Day))) :
                                 k \in 0..FallbackLimit}

InitPick ==
  /\ now \in PickNows
  /\ users = InitUsers
  /\ \E prof \in [UserIds -> PickProfiles] :
       /\ \A u \in UserIds : prof[u] \in PickProfilesOf(u)
       /\ events = UNION {PickRows(u, prof[u], now) : u \in UserIds}
  /\ InitRest
  /\ InitSuggestions(1)
  /\ workers = 1

PickStep ==
  \/ \E u \in UserIds : TriggerSuggestionProcessing(u)
  \/ \E j \in JobIds : StartJob(j)
  \/ \E j \in JobIds : FindUser(j)
  \/ \E j \in JobIds : FindWeekEvents(j)
  \/ \E j \in JobIds : FindFallbackEvents(j)
  \/ \E j \in JobIds : GenerateSuggestions(j)
  \/ \E j \in JobIds : CountExisting(j)
  \/ \E j \in JobIds : DestroyExisting(j)
  \/ \E j \in JobIds : BulkCreate(j)
  \/ \E j \in JobIds : BulkCreateFails(j)

SpecPick == InitPick /\ [][PickStep]_vars

Range(s) == {s[i] : i \in 1..Len(s)}

\* the events of a user dated inside the week of the Monday before tick 0,
\* and those dated no more than FallbackDays days before now
EventsThisWeek(userId) ==
  {e \in events : /\ e.user_id = userId
                  /\ MondayTick <= e.occurred_at
                  /\ e.occurred_at < NextMondayTick}
InLastThreeWeeks(userId) ==
  {e \in events : e.user_id = userId /\ now - e.occurred_at <= FallbackDays * Day}

\* C15: a run whose user has no event in the current calendar week takes the
\* fallback query, and the list for the oracle then holds only that user's
\* events of the last 21 days, all of them when they are no more than the
\* limit and never none of them; a run whose user has an event in the current
\* week never takes the fallback query and its list is exactly that user's
\* current-week events.
C15_FallbackWhenWeekEmpty ==
  \A j \in JobIds :
    \A week \in {EventsThisWeek(sjobs[j].userId)} :
      \A recent \in {InLastThreeWeeks(sjobs[j].userId)} :
        /\ sjobs[j].pc = "findFallback" => week = {}
        /\ sjobs[j].pc = "oracle" =>
              /\ \A i \in 1..Len(sjobs[j].events) :
                    sjobs[j].events[i].user_id = sjobs[j].userId
              /\ Cardinality(Range(sjobs[j].events)) = Len(sjobs[j].events)
              /\ week # {} => Range(sjobs[j].events) = week
              /\ week = {} =>
                    /\ Range(sjobs[j].events) \subseteq recent
                    /\ recent # {} => sjobs[j].events # <<>>
                    /\ Cardinality(recent) <= FallbackLimit =>
                          Range(sjobs[j].events) = recent

\* a fallback run that hands the oracle the three events of the last 21 days
\* while another user has events in the current week
C15_Witness ==
  \E j \in JobIds :
    /\ sjobs[j].pc = "oracle"
    /\ EventsThisWeek(sjobs[j].userId) = {}
    /\ Len(sjobs[j].events) = 3
    /\ \E e \in events : e.user_id # sjobs[j].userId /\ e \in EventsThisWeek(e.user_id)

C15_WeekPathReached ==
  \E j \in JobIds :
    /\ sjobs[j].pc = "oracle"
    /\ Cardinality(EventsThisWeek(sjobs[j].userId)) = 3
    /\ InLastThreeWeeks(sjobs[j].userId) # EventsThisWeek(sjobs[j].userId)

\* C16: the list a run passes to generateWeeklySuggestions is ordered
\* most-recent-first by occurred_at and holds at most 20 events, on the
\* current-week path and on the fallback path.
C16_BoundedWindow ==
  \A j \in JobIds : sjobs[j].pc = "oracle" =>
    /\ Len(sjobs[j].events) <= FallbackLimit
    /\ \A i \in 1..(Len(sjobs[j].events) - 1) :
          sjobs[j].events[i].occurred_at >= sjobs[j].events[i + 1].occurred_at

\* the part of C16 that holds: the order on both paths, the limit on the
\* fallback path
C16_OrderedAndFallbackBounded ==
  \A j \in JobIds : sjobs[j].pc = "oracle" =>
    /\ EventsThisWeek(sjobs[j].userId) = {} => Len(sjobs[j].events) <= FallbackLimit
    /\ \A i \in 1..(Len(sjobs[j].events) - 1) :
          sjobs[j].events[i].occurred_at >= sjobs[j].events[i + 1].occurred_at

C16_FallbackCutReached ==
  \E j \in JobIds :
    /\ sjobs[j].pc = "oracle"
    /\ Len(sjobs[j].events) = FallbackLimit
    /\ Cardinality(InLastThreeWeeks(sjobs[j].userId)) > FallbackLimit

\* one processSuggestions run from a drawn suggestions table, with every call
\* of the run that can throw; the queue may still hold a job whose user is no
\* longer in the users table
OrphanJob == [IdleJob EXCEPT !.pc = "queued", !.userId = NumUsers + 1, !.week = 1]

InitRun ==
  /\ InitStore
  /\ \E owner \in {0} \cup UserIds :
       /\ suggestions = PriorTable(owner)
       /\ nextId = Cardinality(PriorTable(owner)) + 1
  /\ sjobs \in {[j \in 1..1 |-> IdleJob], [j \in 1..1 |-> OrphanJob]}
  /\ workers = 1

RunStep ==
  \/ \E u \in UserIds : TriggerSuggestionProcessing(u)
  \/ \E j \in JobIds : StartJob(j)
  \/ \E j \in JobIds : FindUser(j)
  \/ \E j \in JobIds : FindWeekEvents(j)
  \/ \E j \in JobIds : FindFallbackEvents(j)
  \/ \E j \in JobIds : GenerateSuggestions(j)
  \/ \E j \in JobIds : CountExisting(j)
  \/ \E j \in JobIds : CountExistingFails(j)
  \/ \E j \in JobIds : DestroyExisting(j)
  \/ \E j \in JobIds : DestroyExistingFails(j)
  \/ \E j \in JobIds : BulkCreate(j)
  \/ \E j \in JobIds : BulkCreateFails(j)
  \/ \E u \in UserIds : \E id \in 1..(nextId - 1) : MarkSuggestionAsUsed(id, u)
  \/ \E u \in UserIds : GetSuggestions(u)

SpecRun == InitRun /\ [][RunStep]_vars

\* the change a step makes to the number of signals of a type emitted for a user
EmittedBy(type, userId) == emitted'[<<type, userId>>] - emitted[<<type, userId>>]

\* C17 as stated: the step that completes a run emits FIRST_SUGGESTION for
\* the run's user if and only if the prior count the run recorded is zero.
C17_EmitsIffNoPrior ==
  [][\A j \in JobIds :
       (sjobs[j].pc = "bulkCreate" /\ sjobs'[j].pc = "done") =>
         (EmittedBy("FIRST_SUGGESTION", sjobs[j].userId) = 1
            <=> sjobs[j].existingCount = 0)]_vars

\* C17: the prior count a run records is the number of suggestions stored for
\* its user at that step; the step that completes the run emits
\* FIRST_SUGGESTION once for the run's user if and only if that count is zero
\* and the run inserted at least one row; it emits nothing else, and no other
\* step of a run emits anything.
C17_EmitsIffNoPriorAndRows ==
  [][\A j \in JobIds :
       /\ (sjobs[j].pc = "count" /\ sjobs'[j].pc = "destroy") =>
             sjobs'[j].existingCount = Cardinality(SuggestionsOf(sjobs[j].userId))
       /\ (sjobs[j].pc = "bulkCreate" /\ sjobs'[j].pc = "done") =>
             \A t \in SignalTypes : \A u \in DOMAIN users :
               EmittedBy(t, u) =
                 IF /\ t = "FIRST_SUGGESTION" /\ u = sjobs[j].userId
                    /\ sjobs[j].existingCount = 0 /\ sjobs[j].batch # <<>>
                 THEN 1 ELSE 0
       /\ ~(sjobs[j].pc = "bulkCreate" /\ sjobs'[j].pc = "done") =>
             emitted' = emitted]_vars

C17_Witness ==
  \E j \in JobIds :
    /\ sjobs[j].pc = "done"
    /\ sjobs[j].existingCount = 0
    /\ sjobs[j].batch # <<>>
    /\ emitted[<<"FIRST_SUGGESTION", sjobs[j].userId>>] = 1

C17_EmptyBatchReached ==
  \E j \in JobIds :
    /\ sjobs[j].pc = "done"
    /\ sjobs[j].existingCount = 0
    /\ sjobs[j].batch = <<>>
    /\ emitted[<<"FIRST_SUGGESTION", sjobs[j].userId>>] = 0

C17_PriorReached ==
  \E j \in JobIds :
    /\ sjobs[j].pc = "done"
    /\ sjobs[j].existingCount > 0
    /\ sjobs[j].batch # <<>>
    /\ emitted[<<"FIRST_SUGGESTION", sjobs[j].userId>>] = 0

\* process(job) has returned: after its last statement or out of its catch
Caught(j) == sjobs[j].pc \in {"failed", "failedAfterDelete"}
HasReturned(j) == sjobs[j].pc = "done" \/ Caught(j)

\* C18: a run in which the user is missing, or the oracle, the count, the
\* delete or the bulk insert throws, ends in the catch of process: the step
\* that fails ends the run, frees the worker, and writes and emits nothing;
\* a job that has returned, after an error or not, is never queued or run
\* again, and a job in flight never goes back to the queue.
C18_CaughtAtJobBoundary ==
  [][\A j \in JobIds :
       /\ HasReturned(j) => sjobs'[j] = sjobs[j]
       /\ InFlight(j) => sjobs'[j].pc \notin {"none", "queued"}
       /\ (InFlight(j) /\ sjobs'[j].pc \in {"failed", "failedAfterDelete"}) =>
             /\ Cardinality({k \in JobIds : sjobs'[k].pc = "queued" \/ InFlight(k)'})
                  = Cardinality({k \in JobIds : sjobs[k].pc = "queued" \/ InFlight(k)}) - 1
             /\ sjobs'[j] = [sjobs[j] EXCEPT !.pc = sjobs'[j].pc]
             /\ suggestions' = suggestions
             /\ emitted' = emitted]_vars

\* a run that failed at the delete, with the user's rows still stored
C18_Witness ==
  \E j \in JobIds :
    /\ sjobs[j].pc = "failed"
    /\ sjobs[j].existingCount > 0
    /\ Cardinality(SuggestionsOf(sjobs[j].userId)) = sjobs[j].existingCount

C18_UserMissingReached ==
  \E j \in JobIds : sjobs[j].pc = "failed" /\ sjobs[j].userId \notin DOMAIN users

C18_OracleOrCountFailedReached ==
  \E j \in JobIds :
    /\ sjobs[j].pc = "failed"
    /\ sjobs[j].userId \in DOMAIN users
    /\ sjobs[j].existingCount = 0
    /\ SuggestionsOf(sjobs[j].userId) # {}

C18_InsertFailedReached ==
  \E j \in JobIds : sjobs[j].pc = "failedAfterDelete" /\ sjobs[j].batch # <<>>

\* C19: used only ever goes from false to true: a row stored before and
\* after a step that was used before is used after, and a step that is
\* markSuggestionAsUsed(id, user) for a row of that user leaves the row stored
\* with used = true, whether it was used before or not.
C19_UsedOnlyRises ==
  [][/\ \A r \in suggestions : \A q \in suggestions' :
          (q.id = r.id /\ r.used) => q.used
     /\ \A u \in UserIds : \A id \in 1..(nextId - 1) :
          MarkSuggestionAsUsed(id, u) =>
            \E q \in suggestions' : q.id = id /\ q.user_id = u /\ q.used]_vars

\* a row inserted by a run with used = false has been marked used, next to a
\* row of another user that has not
C19_Witness ==
  /\ \E j \in JobIds : \E r \in suggestions :
       sjobs[j].pc = "done" /\ r.id \in sjobs[j].created /\ r.used
  /\ \E r \in suggestions : ~r.used

SeqIds(rows) == {rows[i].id : i \in 1..Len(rows)}

\* C20: while a run replaces a non-empty suggestion set of a user by a
\* non-empty batch, and after it, getSuggestions for that user returns the
\* complete prior set or the complete new batch, and a poll of the page that
\* showed the prior set reports new suggestions only on the complete new
\* batch.
C20_ReadersSeeWholeSets ==
  [][\A u \in UserIds : \A j \in JobIds :
       ( /\ GetSuggestions(u)
         /\ sjobs[j].userId = u
         /\ sjobs[j].pc \in {"count", "destroy", "bulkCreate", "done"}
         /\ sjobs[j].prior # {}
         /\ sjobs[j].batch # <<>> ) =>
           /\ \/ SeqIds(fetched'.rows) = sjobs[j].prior
              \/ sjobs[j].pc = "done" /\ SeqIds(fetched'.rows) = sjobs[j].created
           /\ PollFindsNew(PriorTable(u), fetched'.rows) =>
                 sjobs[j].pc = "done" /\ SeqIds(fetched'.rows) = sjobs[j].created]_vars

\* the reads that are whole: before the delete and after the insert
C20_WholeOutsideTheGap ==
  [][\A u \in UserIds : \A j \in JobIds :
       ( /\ GetSuggestions(u)
         /\ sjobs[j].userId = u
         /\ sjobs[j].pc \in {"count", "destroy", "done"}
         /\ sjobs[j].prior # {}
         /\ sjobs[j].batch # <<>> ) =>
           /\ \/ SeqIds(fetched'.rows) = sjobs[j].prior
              \/ sjobs[j].pc = "done" /\ SeqIds(fetched'.rows) = sjobs[j].created
           /\ PollFindsNew(PriorTable(u), fetched'.rows) =>
                 sjobs[j].pc = "done" /\ SeqIds(fetched'.rows) = sjobs[j].created]_vars

C20_EmptyReadInTheGap ==
  \E j \in JobIds :
    /\ sjobs[j].pc = "bulkCreate"
    /\ sjobs[j].prior # {}
    /\ sjobs[j].batch # <<>>
    /\ fetched = [userId |-> sjobs[j].userId, rows |-> <<>>]

\* C21: over any interleaving of runs, FIRST_SUGGESTION has been emitted at
\* most once for each user.
C21_FirstSuggestionOnce ==
  \A u \in DOMAIN users : emitted[<<"FIRST_SUGGESTION", u>>] <= 1

\* C22: a job whose user is not in the users table gets no further than
\* findByPk: it is queued, at findByPk or abandoned, it never holds events or
\* an oracle batch, and no step of it deletes or inserts a suggestion row or
\* emits a signal.
C22_MissingUserAbandoned ==
  [][\A j \in JobIds :
       (sjobs'[j].pc # "none" /\ sjobs'[j].userId \notin DOMAIN users') =>
         /\ sjobs'[j].pc \in {"queued", "findByPk", "failed"}
         /\ sjobs'[j].events = <<>> /\ sjobs'[j].batch = <<>>
         /\ sjobs'[j] # sjobs[j] =>
               /\ suggestions' = suggestions
               /\ nextId' = nextId
               /\ emitted' = emitted
               /\ signals' = signals]_vars

\* the job of a missing user has been abandoned while another user's row,
\* marked used meanwhile, is still stored
C22_Witness ==
  \E j \in JobIds :
    /\ sjobs[j].pc = "failed"
    /\ sjobs[j].userId \notin DOMAIN users
    /\ \E r \in suggestions : r.used

\* C23: no step of a run up to and including its oracle call touches the
\* suggestions table or emits a signal, and when the oracle call fails the
\* user's stored rows are the rows the user had when the run started, the run
\* has inserted nothing and nothing has been emitted.
C23_OracleFailureLeavesRows ==
  [][\A j \in JobIds :
       /\ ( /\ sjobs[j].pc \in {"queued", "findByPk", "findWeek", "findFallback", "oracle"}
            /\ sjobs'[j] # sjobs[j] ) =>
             /\ suggestions' = suggestions
             /\ nextId' = nextId
             /\ emitted' = emitted
       /\ (sjobs[j].pc = "oracle" /\ sjobs'[j].pc = "failed") =>
             /\ RowIds(SuggestionsOf(sjobs[j].userId)') = sjobs[j].prior
             /\ sjobs'[j].created = {}
             /\ sjobs'[j].batch = <<>>]_vars

\* a run for a user with a stored row has failed at the oracle (no batch, no
\* prior count taken) and the row is still there
C23_Witness ==
  \E j \in JobIds :
    /\ sjobs[j].pc = "failed"
    /\ sjobs[j].prior # {}
    /\ sjobs[j].batch = <<>>
    /\ sjobs[j].existingCount = 0
    /\ RowIds(SuggestionsOf(sjobs[j].userId)) = sjobs[j].prior

C24_BottomReached ==
  /\ \E i \in 1..Len(leaderboard) : leaderboard[i].score = 0
  /\ \E k \in 1..Len(weeklyScores.scores) : weeklyScores.scores[k].score[1] = 0

\* the events of a user dated within the FallbackDays days that end now
InLookbackWindow(userId) ==
  {e \in events : /\ e.user_id = userId
                  /\ now - e.occurred_at <= FallbackDays * Day
                  /\ e.occurred_at <= now}

\* C25: on the fallback path every event passed to the oracle is dated
\* within the 21 days that end now, not earlier and not later, and when more
\* than 20 events are dated so, the 20 passed are the most recent of them.
C25_FallbackInsideWindow ==
  \A j \in JobIds :
    \A window \in {InLookbackWindow(sjobs[j].userId)} :
      (sjobs[j].pc = "oracle" /\ EventsThisWeek(sjobs[j].userId) = {}) =>
        /\ Range(sjobs[j].events) \subseteq window
        /\ Cardinality(window) > FallbackLimit =>
              /\ Len(sjobs[j].events) = FallbackLimit
              /\ \A e \in window \ Range(sjobs[j].events) :
                    \A i \in 1..Len(sjobs[j].events) :
                      sjobs[j].events[i].occurred_at >= e.occurred_at

\* the part of C25 that holds: the lower edge of the window, and the cut to
\* the most recent events among those the query matches
C25_NotOlderAndMostRecent ==
  \A j \in JobIds :
    \A recent \in {InLastThreeWeeks(sjobs[j].userId)} :
      (sjobs[j].pc = "oracle" /\ EventsThisWeek(sjobs[j].userId) = {}) =>
        /\ Range(sjobs[j].events) \subseteq recent
        /\ Cardinality(recent) > FallbackLimit =>
              /\ Len(sjobs[j].events) = FallbackLimit
              /\ \A e \in recent \ Range(sjobs[j].events) :
                    \A i \in 1..Len(sjobs[j].events) :
                      sjobs[j].events[i].occurred_at >= e.occurred_at

\* weekly karma scores over a drawn event store: user 1 has, at each of four
\* times around the edges of the first weeks after joining, no event, an
\* unscored event or an event scored at an end of the range; every other user
\* has one event or none
WeekOffsets ==
  {-1, DaysPerWeek * Day + Day - 1, (DaysPerWeek + 1) * Day, (2 * DaysPerWeek + 1) * Day}

WeekRows(u, offsets, marks) ==
  {[event_id |-> u * (3 * DaysPerWeek * Day) + off + 1, user_id |-> u,
    action |-> "Helped a neighbor", intensity |-> marks[off],
    feedback |-> IF marks[off] = NULL THEN NULL ELSE <<"Great job">>,
    feedback_generated |-> marks[off] # NULL,
    occurred_at |-> InitUsers[u].createdAt + off] : off \in offsets}

InitWeeks ==
  /\ now = 0
  /\ users = InitUsers
  /\ \E offsets \in SUBSET WeekOffsets :
       \E marks \in [WeekOffsets -> ScoreIntensities] :
         \E others \in SUBSET (UserIds \ {1}) :
           events = WeekRows(1, offsets, marks)
                      \cup UNION {WeekRows(u, {-1}, [o \in WeekOffsets |-> <<10>>]) :
                                   u \in others}
  /\ InitRest
  /\ InitSuggestions(1)
  /\ workers = 1

WeeksStep == \E u \in UserIds : GetWeeklyKarmaScores(u)

SpecWeeks == InitWeeks /\ [][WeeksStep]_vars

\* C26: the list weeklyKarmaScores returned for a user is empty when the
\* user has no events, and otherwise has exactly one entry for each
\* weeks-since-join bucket that holds an event of the user and no other
\* entry; the score of an entry is the rounded normalized average over
\* exactly the user's events of that bucket, an unscored event counting 0.
C26_OneEntryPerBucket ==
  weeklyScores.userId \in DOMAIN users =>
    \A own \in {{e \in events : e.user_id = weeklyScores.userId}} :
      \A joined \in {users[weeklyScores.userId].createdAt} :
        /\ own = {} => weeklyScores.scores = <<>>
        /\ \A e \in own : \E k \in 1..Len(weeklyScores.scores) :
             IsWeekOf(weeklyScores.scores[k].week, (e.occurred_at - joined) \div Day)
        /\ \A k, m \in 1..Len(weeklyScores.scores) :
             weeklyScores.scores[k].week = weeklyScores.scores[m].week => k = m
        /\ \A k \in 1..Len(weeklyScores.scores) :
             \A group \in {{e \in own : IsWeekOf(weeklyScores.scores[k].week,
                                                  (e.occurred_at - joined) \div Day)}} :
               /\ group # {}
               /\ weeklyScores.scores[k].score[2] = "%"
               /\ RoundsTo(weeklyScores.scores[k].score[1],
                           SumOrZero(group), Cardinality(group))

\* three buckets, the first holding two events, while another user has an
\* event too
C26_Witness ==
  /\ weeklyScores.userId = 1
  /\ Len(weeklyScores.scores) = 3
  /\ Cardinality({e \in events : e.user_id = 1}) = 4
  /\ \E e \in events : e.user_id # 1

C26_EmptyReached ==
  /\ weeklyScores.userId \in DOMAIN users
  /\ weeklyScores.scores = <<>>
  /\ events # {}

\* the users the two replies at hand both answer for, whose events all lie in
\* the current calendar week and in one weeks-since-join bucket
BothReported ==
  {i \in 1..Len(leaderboard) :
     /\ leaderboard[i].userId = weeklyScores.userId
     /\ EventsOf(weeklyScores.userId) = ThisWeekEvents(weeklyScores.userId)
     /\ Len(weeklyScores.scores) = 1}

\* C28: for a user whose events all fall inside the current calendar week and
\* inside one weeks-since-join bucket, weeklyKarmaScores and weeklyLeaderboard
\* report the same number, unscored events among them or not.
C28_SameScore ==
  \A i \in BothReported : leaderboard[i].score = weeklyScores.scores[1].score[1]

\* the two agree when the user's events are all scored or all unscored
C28_SameWhenNotMixed ==
  \A i \in BothReported :
    LET unscored == {e \in EventsOf(weeklyScores.userId) : e.intensity = NULL}
    IN unscored \in {{}, EventsOf(weeklyScores.userId)}
         => leaderboard[i].score = weeklyScores.scores[1].score[1]

C28_AllScoredReached ==
  /\ BothReported # {}
  /\ \A e \in EventsOf(weeklyScores.userId) : e.intensity # NULL
  /\ weeklyScores.scores[1].score[1] = 100

C28_AllUnscoredReached ==
  /\ BothReported # {}
  /\ \A e \in EventsOf(weeklyScores.userId) : e.intensity = NULL

\* ------------------------------------- the client's feedback polling hook
\* the user signed in at the client that mounts the hook
Viewer == 1

\* startPolling: the interval is set unless one is running
StartPolling(h) == [h EXCEPT !.polling = TRUE]
\* stopPolling: the interval is cleared
StopPolling(h) == [h EXCEPT !.polling = FALSE]

\* the events page calls notifyEventCreated with the id createKarmaEvent
\* returned: addProcessingEvent adds it and starts the polling
NotifyEventCreated(eventId) ==
  /\ EventExists(eventId)
  /\ EventRow(eventId).user_id = Viewer
  /\ fjobs[eventId].pc \notin {"none", "persisted"}
  /\ eventId \notin hook.notified
  /\ hook' = StartPolling([hook EXCEPT !.processing = @ \cup {eventId},
                                       !.notified = @ \cup {eventId}])
  /\ UNCHANGED <<now, users, events, signals, emitted, otherVars, suggVars,
                 weeklyScores, dateReply, fetched, auth>>

\* a tick of the 10-second interval calls checkFeedbackStatus, which stops
\* the polling when nothing is tracked and sends getMyKarmaEvents otherwise;
\* hook.checks is the bag of the calls that have not returned
IntervalTick ==
  /\ hook.polling
  /\ BagCardinality(hook.checks) < MaxChecks
  /\ hook' = IF hook.processing = {} THEN StopPolling(hook)
             ELSE [hook EXCEPT !.checks = @ (+) SetToBag({AwaitingCheck})]
  /\ UNCHANGED <<now, users, events, signals, emitted, otherVars, suggVars,
                 weeklyScores, dateReply, fetched, auth>>

\* event && event.feedback_generated && event.feedback, over a reply
FeedbackReady(eventId, reply) ==
  \E e \in reply : /\ e.event_id = eventId
                   /\ e.feedback_generated
                   /\ e.feedback # NULL
                   /\ e.feedback[1] # ""

\* what a check reads from a reply: the ids of the rows it finds finished
ReadyIn(reply) == {e.event_id : e \in {r \in reply : FeedbackReady(r.event_id, reply)}}

\* the server answers a check's getMyKarmaEvents with the viewer's rows
ServeMyKarmaEvents ==
  /\ BagIn(AwaitingCheck, hook.checks)
  /\ hook' = [hook EXCEPT !.checks =
                (@ (-) SetToBag({AwaitingCheck})) (+)
                SetToBag({[pc |-> "responded",
                           ready |-> ReadyIn(getMyKarmaEvents(Viewer))]})]
  /\ UNCHANGED <<now, users, events, signals, emitted, otherVars, suggVars,
                 weeklyScores, dateReply, fetched, auth>>

\* a check's getMyKarmaEvents fails: the catch logs and the check ends
MyKarmaEventsFails ==
  /\ BagIn(AwaitingCheck, hook.checks)
  /\ hook' = [hook EXCEPT !.checks = @ (-) SetToBag({AwaitingCheck})]
  /\ UNCHANGED <<now, users, events, signals, emitted, otherVars, suggVars,
                 weeklyScores, dateReply, fetched, auth>>

\* the ids the loop of a check visits: the processing set as it is when the
\* reply is at hand
ProcessingIdsEverTracked == hook.notified
ProcessingIds == hook.processing

\* the rest of checkFeedbackStatus, run in one turn once the reply is at
\* hand: every tracked event the reply shows finished leaves the processing
\* set and raises a toast; the polling stops when nothing is left
FinishCheck(check) ==
  /\ check.pc = "responded"
  /\ BagIn(check, hook.checks)
  /\ LET finished == ProcessingIds \cap check.ready
         left == hook.processing \ finished
         after == [hook EXCEPT !.processing = left,
                               !.toasts = [e \in 1..MaxEvents |->
                                             IF e \in finished THEN @[e] + 1 ELSE @[e]],
                               !.checks = @ (-) SetToBag({check})]
     IN hook' = IF left = {} THEN StopPolling(after) ELSE after
  /\ UNCHANGED <<now, users, events, signals, emitted, otherVars, suggVars,
                 weeklyScores, dateReply, fetched, auth>>

HookStep ==
  \/ \E e \in 1..MaxEvents : NotifyEventCreated(e)
  \/ IntervalTick
  \/ ServeMyKarmaEvents
  \/ MyKarmaEventsFails
  \/ \E check \in BagToSet(hook.checks) : FinishCheck(check)

\* event intake and scoring on the server, for the viewer and one other user
Creators == {Viewer, NumUsers}
PipelineStep ==
  \/ \E u \in Creators : \E a \in Actions : \E at \in OccurredAtInputs :
       CreateEvent(u, a, at)
  \/ \E e \in 1..MaxEvents : EnqueueFeedback(e)
  \/ \E e \in 1..MaxEvents : LoadEvent(e)
  \/ \E e \in 1..MaxEvents : ScoreEvent(e)
  \/ \E e \in 1..MaxEvents : UpdateEvent(e)
  \/ \E e \in 1..MaxEvents : CountAndEmit(e)

InitPoll == InitStore /\ InitSuggestions(1) /\ workers = 1
PollStep == PipelineStep \/ HookStep
SpecPoll == InitPoll /\ [][PollStep]_vars

\* C29: the hook shows the "AI Analysis Complete!" toast at most once for a
\* tracked event, whatever the interleaving of its status checks, a check
\* still awaiting its reply when the next tick starts another one included.
C29_ToastAtMostOnce ==
  \A e \in 1..MaxEvents : hook.toasts[e] <= 1

\* the toast of an event has been shown and another check, started before,
\* holds a reply that shows the same event finished
C29_Witness ==
  \E e \in 1..MaxEvents : \E check \in BagToSet(hook.checks) :
    /\ hook.toasts[e] = 1
    /\ check.pc = "responded"
    /\ e \in check.ready

\* two checks await their replies at once
C29_TwoAwaiting == CopiesIn(AwaitingCheck, hook.checks) >= 2

\* the steps the server's queue worker takes on its own
WorkerStep ==
  \/ \E e \in 1..MaxEvents : EnqueueFeedback(e)
  \/ \E e \in 1..MaxEvents : LoadEvent(e)
  \/ \E e \in 1..MaxEvents : ScoreEvent(e)
  \/ \E e \in 1..MaxEvents : UpdateEvent(e)
  \/ \E e \in 1..MaxEvents : CountAndEmit(e)

\* the polling under the scheduling the code has: the worker runs the jobs it
\* holds, the page reports every event it created, the interval fires while
\* it is set, every request returns, requests sent again and again do not
\* all fail, and every continuation runs
SpecPollFair ==
  /\ SpecPoll
  /\ WF_vars(WorkerStep)
  /\ WF_vars(\E e \in 1..MaxEvents : NotifyEventCreated(e))
  /\ WF_vars(IntervalTick)
  /\ WF_vars(ServeMyKarmaEvents \/ MyKarmaEventsFails)
  /\ SF_vars(ServeMyKarmaEvents)
  /\ WF_vars(\E check \in BagToSet(hook.checks) : FinishCheck(check))

\* C27: the polling eventually stops for every tracked event: the event
\* leaves the processing set and the 10-second interval is cleared, also
\* when the scoring of the event fails for good or never completes.
C27_PollingStops ==
  \A e \in 1..MaxEvents :
    (e \in hook.processing) ~> (e \notin hook.processing /\ ~hook.polling)

\* a tracked event whose scoring job has failed, the interval still set
C27_FailedYetPolled ==
  \E e \in 1..MaxEvents :
    fjobs[e].pc = "failed" /\ e \in hook.processing /\ hook.polling

\* an event that is tracked leaves the processing set only with its feedback
\* stored, and the interval is cleared only when nothing is tracked
C27_LeavesOnlyWhenScored ==
  [][/\ \A e \in hook.processing \ hook'.processing :
          EventRow(e).feedback_generated /\ EventRow(e).feedback # NULL
     /\ (hook.polling /\ ~hook'.polling) => hook'.processing = {}]_vars

\* ------------------------------------------------ the client's auth context
\* the sign-in addresses tried: those of the users, and 0, which nobody has
Emails == UserIds \cup {0}
\* the access token the server issues to a login attempt
IssuedToken(attempt) == <<attempt>>

\* login, up to its first await: isLoading is set, error is cleared and the
\* credential request is sent
Login(email) ==
  /\ auth.pc = "idle"
  /\ auth.attempt < MaxLogins
  /\ auth' = [auth EXCEPT !.pc = "credentials", !.email = email, !.attempt = @ + 1,
                          !.outcome = "pending", !.isLoading = TRUE, !.error = NULL]
  /\ UNCHANGED <<now, users, events, signals, emitted, otherVars, suggVars,
                 weeklyScores, dateReply, fetched, hook>>

\* catch and finally of login: the message is stored, the error is thrown on
\* to the caller and isLoading is reset
LoginCaught(a, message) ==
  [a EXCEPT !.pc = "idle", !.outcome = "failed", !.error = <<message>>,
            !.isLoading = FALSE]

\* the credential request answers.  An access_token that is not a string is
\* thrown on; a string is stored in the context, the api client and
\* localStorage, and the user lookup is sent
LoginAnswers(isString) ==
  /\ auth.pc = "credentials"
  /\ auth.email \in DOMAIN users
  /\ auth' = IF isString
             THEN [auth EXCEPT !.pc = "lookup",
                               !.token = IssuedToken(auth.attempt),
                               !.apiToken = IssuedToken(auth.attempt),
                               !.stored = IssuedToken(auth.attempt)]
             ELSE LoginCaught(auth, "Invalid token received from server")
  /\ UNCHANGED <<now, users, events, signals, emitted, otherVars, suggVars,
                 weeklyScores, dateReply, fetched, hook>>

\* the credential request fails: wrong credentials, or no answer
LoginRequestFails ==
  /\ auth.pc = "credentials"
  /\ auth' = LoginCaught(auth, "Login failed")
  /\ UNCHANGED <<now, users, events, signals, emitted, otherVars, suggVars,
                 weeklyScores, dateReply, fetched, hook>>

\* getUserByEmail answers: the user is stored and login returns
LookupAnswers ==
  /\ auth.pc = "lookup"
  /\ auth' = [auth EXCEPT !.pc = "idle", !.outcome = "ok", !.user = <<auth.email>>,
                          !.isLoading = FALSE]
  /\ UNCHANGED <<now, users, events, signals, emitted, otherVars, suggVars,
                 weeklyScores, dateReply, fetched, hook>>

\* getUserByEmail fails
LookupFails ==
  /\ auth.pc = "lookup"
  /\ auth' = LoginCaught(auth, "Login failed")
  /\ UNCHANGED <<now, users, events, signals, emitted, otherVars, suggVars,
                 weeklyScores, dateReply, fetched, hook>>

\* logout clears the user, the error and the token in all three places
Logout ==
  /\ auth' = [auth EXCEPT !.user = NULL, !.token = NULL, !.error = NULL,
                          !.apiToken = NULL, !.stored = NULL]
  /\ UNCHANGED <<now, users, events, signals, emitted, otherVars, suggVars,
                 weeklyScores, dateReply, fetched, hook>>

\* the page is loaded again: the api client and the context start from
\* localStorage's auth_token (login stores strings only, so the saved token
\* is never the corrupted one the effect clears), and a login under way is
\* gone with the old page
Reload ==
  /\ auth' = [auth EXCEPT !.pc = "idle", !.outcome = "none", !.user = NULL,
                          !.error = NULL, !.isLoading = FALSE,
                          !.token = auth.stored, !.apiToken = auth.stored]
  /\ UNCHANGED <<now, users, events, signals, emitted, otherVars, suggVars,
                 weeklyScores, dateReply, fetched, hook>>

\* useAuthStatus: isAuthenticated is !!token
IsAuthenticated(a) == a.token # NULL

InitAuth == InitStore /\ InitSuggestions(1) /\ workers = 1
AuthStep ==
  \/ \E email \in Emails : Login(email)
  \/ \E isString \in BOOLEAN : LoginAnswers(isString)
  \/ LoginRequestFails
  \/ LookupAnswers
  \/ LookupFails
  \/ Logout
  \/ Reload
SpecAuth == InitAuth /\ [][AuthStep]_vars

\* the step on which a login attempt fails
LoginFails == auth.pc # "idle" /\ auth'.pc = "idle" /\ auth'.outcome = "failed"

\* C30: when login fails at any step (the credential request, the token type
\* check or the user lookup), error is set and neither the context token, nor
\* the api client's token, nor localStorage's auth_token holds the token of
\* the failed attempt.
C30_FailedLoginLeavesNoToken ==
  [][LoginFails =>
       /\ auth'.error # NULL
       /\ IssuedToken(auth'.attempt) \notin {auth'.token, auth'.apiToken, auth'.stored}]_vars

\* every failed login sets error and resets isLoading, and one that fails at
\* the credential request or at the type check leaves the three tokens as
\* they were
C30_ErrorSetAndEarlyFailureClean ==
  [][LoginFails =>
       /\ auth'.error # NULL
       /\ ~auth'.isLoading
       /\ auth.pc = "credentials" =>
            /\ <<auth'.token, auth'.apiToken, auth'.stored>>
                 = <<auth.token, auth.apiToken, auth.stored>>
            /\ IssuedToken(auth'.attempt) \notin {auth'.token, auth'.apiToken, auth'.stored}]_vars

\* a login that failed at the user lookup has left the client authenticated
\* with the token of that attempt and without a user
C30_AuthenticatedAfterFailure ==
  /\ auth.pc = "idle"
  /\ auth.outcome = "failed"
  /\ IsAuthenticated(auth)
  /\ auth.token = IssuedToken(auth.attempt)
  /\ auth.stored = IssuedToken(auth.attempt)
  /\ auth.user = NULL

\* a login failed at the type check
C30_BadTokenReached ==
  auth.outcome = "failed" /\ auth.error = <<"Invalid token received from server">>

====
